---------------------------- MODULE Spec2Model ----------------------------
(***************************************************************************)
(* Model of insights/client/__init__.py: the egg self-update flow          *)
(* (fetch -> verify -> install), the post-upload rotation of the newest    *)
(* egg into the last-stable slot, and the phase()/die() protocol through   *)
(* which each phase process reports to its supervisor.                     *)
(*                                                                         *)
(* Files are modelled by their content, an integer:                        *)
(*   -1      no file at that path                                          *)
(*    0      an empty file                                                 *)
(*    n > 0  an egg file holds egg version n; a signature file holds the   *)
(*           detached signature made over egg version n; an etag file      *)
(*           holds the validator token n.                                  *)
(* Specification Spec is the supervisor running phase processes one after  *)
(* the other; specification SpecApi is a caller invoking methods of        *)
(* InsightsClient directly with arguments drawn from bounded sets.         *)
(***************************************************************************)
EXTENDS Integers, Sequences, FiniteSets, TLC

VARIABLES
    libDir,       \* constants.insights_core_lib_dir exists (os.path.isdir)
    newest,       \* [core, gpg_sig]: insights_core_newest, insights_core_gpg_sig_newest
    last_stable,  \* [core, gpg_sig]: insights_core_last_stable, ..._last_stable_gpg_sig
    etag,         \* [core, gpg_sig]: core_etag_file, core_gpg_sig_etag_file
    pub_gpg,      \* the keyring file constants.pub_gpg_path exists
    archive,      \* the collected archive (tar file) exists on disk
    originVer,    \* the egg version the origin currently publishes
    cur_phase,    \* the phase the running process executes ("none": no process)
    pc,           \* position of the running process
    config,       \* the options the process reads across steps
    force,        \* the force argument of the fetch in progress
    target,       \* which resource _fetch is working on: "core", "gpg_sig" or "none"
    tmp,          \* [core, gpg_sig]: the files of fetch()'s tempfile.mkdtemp() directory
    argv,         \* arguments of a direct API call (SpecApi): which paths/keys are set
    request,      \* the If-None-Match header of the request sent (-1: none)
    response,     \* the HTTP response in hand: [status_code, content, etag]
    upload_results, \* status of client.upload() (0: none yet)
    raised,       \* the exception propagating out of the phase body ("none": none)
    stdout,       \* the structured lines the process has printed
    exit_status,  \* -1 while the process runs, then its exit status
    log           \* the calls made and results returned in this process

vars == <<libDir, newest, last_stable, etag, pub_gpg, archive, originVer,
          cur_phase, pc, config, force, target, tmp, argv, request, response,
          upload_results, raised, stdout, exit_status, log>>

fsVars   == <<libDir, newest, last_stable, etag, pub_gpg, archive>>
slotVars == <<libDir, newest, last_stable>>
httpVars == <<request, response>>
outVars  == <<stdout, exit_status>>

\* Number of egg versions the origin publishes over time.
MaxVer == 2

Versions == 1..MaxVer

\* os.path.isfile on a modelled file
isfile(f) == f >= 0

NoSlot   == [core |-> -1, gpg_sig |-> -1]
NoResponse == [status_code |-> 0, content |-> 0, etag |-> -1]
NoArgs   == [egg_path |-> FALSE, gpg_key |-> FALSE]

HTTP_OK == 200
HTTP_NOT_MODIFIED == 304
HTTP_CREATED == 201
HTTP_ERROR == 500

Phases == {"pre_update", "update", "post_update", "collect", "upload"}

DefaultConfig ==
    [gpg |-> TRUE, update |-> TRUE, keep_archive |-> FALSE, to_json |-> FALSE]

\* compile_config(): the options compiled for one process.  Only the options
\* a phase reads across several steps are kept in the state; the options a
\* phase body reads in one step are drawn in that step.
compile_config(p) ==
    IF p = "update"
    THEN {[DefaultConfig EXCEPT !.gpg = g, !.update = u] : g \in BOOLEAN, u \in BOOLEAN}
    ELSE IF p = "upload"
    THEN {[DefaultConfig EXCEPT !.keep_archive = k, !.to_json = j] :
              k \in BOOLEAN, j \in BOOLEAN}
    ELSE {DefaultConfig}


(***************************************************************************)
(* The origin and the gpg backend (external collaborators).                *)
(***************************************************************************)

\* What the origin holds for a resource: the egg it publishes, or a detached
\* signature, which the origin may have made over any egg version.
OriginResource(which) == IF which = "core" THEN {originVer} ELSE Versions

\* self.session.get(url[, headers={'If-None-Match': inm}]): the responses the
\* origin can give.  inm = -1 is a request without the header.  A 304 is
\* given only to a conditional request carrying the resource's validator.
session_get(which, inm) ==
    UNION {
        {[status_code |-> HTTP_OK, content |-> c, etag |-> c],
         [status_code |-> HTTP_OK, content |-> c, etag |-> -1],
         [status_code |-> HTTP_OK, content |-> 0, etag |-> c],
         [status_code |-> HTTP_ERROR, content |-> 0, etag |-> -1]}
        \cup (IF inm = c
              THEN {[status_code |-> HTTP_NOT_MODIFIED, content |-> 0, etag |-> c]}
              ELSE {})
        : c \in OriginResource(which)}

\* Exit codes of "/usr/bin/gpg --verify --keyring K egg.asc egg": 0 exactly
\* when the signature file exists and was made over the egg file's content.
gpg_returncode(egg_file, sig_file) ==
    IF isfile(sig_file) /\ sig_file > 0 /\ sig_file = egg_file THEN {0} ELSE {1, 2}

(***************************************************************************)
(* InsightsClient.verify                                                   *)
(* egg_path, gpg_key: the argument is a non-empty path; egg_file, sig_file:*)
(* the files at egg_path and egg_path + '.asc'; key_file: the keyring file *)
(* exists; gpg: config["gpg"]; rc: the exit code gpg gives if it is run.   *)
(***************************************************************************)
\* Mutant: the no-gpg bypass is tested before the existence of the files.
verify_bypass_first(egg_path, egg_file, sig_file, gpg_key, key_file, gpg, rc) ==
    IF ~gpg
    THEN [gpg |-> TRUE, rc |-> 0, popen |-> FALSE]
    ELSE IF egg_path /\ ~isfile(egg_file)
    THEN [gpg |-> FALSE, rc |-> 1, popen |-> FALSE]
    ELSE IF gpg_key /\ ~key_file
    THEN [gpg |-> FALSE, rc |-> 1, popen |-> FALSE]
    ELSE IF egg_path /\ gpg_key
    THEN [gpg |-> (rc = 0), rc |-> rc, popen |-> TRUE]
    ELSE [gpg |-> FALSE, rc |-> 1, popen |-> FALSE]

\* Mutant: the keyring file is not looked for before gpg is run.
verify_keyring_unchecked(egg_path, egg_file, sig_file, gpg_key, key_file, gpg, rc) ==
    IF egg_path /\ ~isfile(egg_file)
    THEN [gpg |-> FALSE, rc |-> 1, popen |-> FALSE]
    ELSE IF ~gpg
    THEN [gpg |-> TRUE, rc |-> 0, popen |-> FALSE]
    ELSE IF egg_path /\ gpg_key
    THEN [gpg |-> (rc = 0), rc |-> rc, popen |-> TRUE]
    ELSE [gpg |-> FALSE, rc |-> 1, popen |-> FALSE]

verify(egg_path, egg_file, sig_file, gpg_key, key_file, gpg, rc) ==
    IF egg_path /\ ~isfile(egg_file)
    THEN [gpg |-> FALSE, rc |-> 1, popen |-> FALSE]
    ELSE IF gpg /\ gpg_key /\ ~key_file
    THEN [gpg |-> FALSE, rc |-> 1, popen |-> FALSE]
    ELSE IF ~gpg
    THEN [gpg |-> TRUE, rc |-> 0, popen |-> FALSE]
    ELSE IF egg_path /\ gpg_key
    THEN [gpg |-> (rc = 0), rc |-> rc, popen |-> TRUE]
    ELSE [gpg |-> FALSE, rc |-> 1, popen |-> FALSE]

(***************************************************************************)
(* InsightsClient.install and InsightsClient.rotate_eggs, as functions of  *)
(* the files and of the environment fault (if any) that hits the call.     *)
(***************************************************************************)
Faults == {"none", "mkdir", "copy_core", "copy_gpg_sig"}

\* shutil.copyfile(src, dst) raises IOError when src cannot be opened or
\* when the environment refuses the write; dst is then left as it was.
copy_fails(src_file, fault, step) == ~isfile(src_file) \/ fault = step

\* Mutant: the directory is created before the arguments are looked at.
install_mkdir_first(new_egg, new_egg_gpg_sig, gpg, dir, slot, fault) ==
    IF ~dir /\ fault = "mkdir"
    THEN [success |-> FALSE, raised |-> "OSError", libDir |-> dir, newest |-> slot,
          called_copy |-> FALSE]
    ELSE IF ~new_egg.path
    THEN [success |-> FALSE, raised |-> "none", libDir |-> TRUE, newest |-> slot,
          called_copy |-> FALSE]
    ELSE IF gpg /\ ~new_egg_gpg_sig.path
    THEN [success |-> FALSE, raised |-> "none", libDir |-> TRUE, newest |-> slot,
          called_copy |-> FALSE]
    ELSE IF copy_fails(new_egg.file, fault, "copy_core")
    THEN [success |-> FALSE, raised |-> "IOError", libDir |-> TRUE, newest |-> slot,
          called_copy |-> TRUE]
    ELSE IF ~new_egg_gpg_sig.path
    THEN [success |-> FALSE, raised |-> "TypeError", libDir |-> TRUE,
          newest |-> [slot EXCEPT !.core = new_egg.file], called_copy |-> TRUE]
    ELSE IF copy_fails(new_egg_gpg_sig.file, fault, "copy_gpg_sig")
    THEN [success |-> FALSE, raised |-> "IOError", libDir |-> TRUE,
          newest |-> [slot EXCEPT !.core = new_egg.file], called_copy |-> TRUE]
    ELSE [success |-> TRUE, raised |-> "none", libDir |-> TRUE,
          newest |-> [core |-> new_egg.file, gpg_sig |-> new_egg_gpg_sig.file],
          called_copy |-> TRUE]

\* new_egg, new_egg_gpg_sig: [path |-> the argument is set, file |-> content]
install(new_egg, new_egg_gpg_sig, gpg, dir, slot, fault) ==
    IF ~new_egg.path
    THEN [success |-> FALSE, raised |-> "none", libDir |-> dir, newest |-> slot,
          called_copy |-> FALSE]
    ELSE IF gpg /\ ~new_egg_gpg_sig.path
    THEN [success |-> FALSE, raised |-> "none", libDir |-> dir, newest |-> slot,
          called_copy |-> FALSE]
    ELSE IF ~dir /\ fault = "mkdir"
    THEN [success |-> FALSE, raised |-> "OSError", libDir |-> dir, newest |-> slot,
          called_copy |-> FALSE]
    ELSE IF copy_fails(new_egg.file, fault, "copy_core")
    THEN [success |-> FALSE, raised |-> "IOError", libDir |-> TRUE, newest |-> slot,
          called_copy |-> TRUE]
    ELSE IF ~new_egg_gpg_sig.path
    THEN [success |-> FALSE, raised |-> "TypeError", libDir |-> TRUE,
          newest |-> [slot EXCEPT !.core = new_egg.file], called_copy |-> TRUE]
    ELSE IF copy_fails(new_egg_gpg_sig.file, fault, "copy_gpg_sig")
    THEN [success |-> FALSE, raised |-> "IOError", libDir |-> TRUE,
          newest |-> [slot EXCEPT !.core = new_egg.file], called_copy |-> TRUE]
    ELSE [success |-> TRUE, raised |-> "none", libDir |-> TRUE,
          newest |-> [core |-> new_egg.file, gpg_sig |-> new_egg_gpg_sig.file],
          called_copy |-> TRUE]

\* Mutant: the core is copied from the signature's path.
rotate_eggs_wrong_source(dir, new_slot, stable_slot, fault) ==
    IF ~dir
    THEN [result |-> FALSE, raised |-> "none", last_stable |-> stable_slot]
    ELSE IF ~isfile(new_slot.core)
    THEN [result |-> FALSE, raised |-> "none", last_stable |-> stable_slot]
    ELSE IF copy_fails(new_slot.gpg_sig, fault, "copy_core")
    THEN [result |-> FALSE, raised |-> "IOError", last_stable |-> stable_slot]
    ELSE IF copy_fails(new_slot.gpg_sig, fault, "copy_gpg_sig")
    THEN [result |-> FALSE, raised |-> "IOError",
          last_stable |-> [stable_slot EXCEPT !.core = new_slot.gpg_sig]]
    ELSE [result |-> TRUE, raised |-> "none",
          last_stable |-> [core |-> new_slot.gpg_sig, gpg_sig |-> new_slot.gpg_sig]]

\* Mutant: no test that newest.egg exists before the copy.
rotate_eggs_unchecked(dir, new_slot, stable_slot, fault) ==
    IF ~dir
    THEN [result |-> FALSE, raised |-> "none", last_stable |-> stable_slot]
    ELSE IF copy_fails(new_slot.core, fault, "copy_core")
    THEN [result |-> FALSE, raised |-> "IOError", last_stable |-> stable_slot]
    ELSE IF copy_fails(new_slot.gpg_sig, fault, "copy_gpg_sig")
    THEN [result |-> FALSE, raised |-> "IOError",
          last_stable |-> [stable_slot EXCEPT !.core = new_slot.core]]
    ELSE [result |-> TRUE, raised |-> "none",
          last_stable |-> [core |-> new_slot.core, gpg_sig |-> new_slot.gpg_sig]]

rotate_eggs(dir, new_slot, stable_slot, fault) ==
    IF ~dir
    THEN [result |-> FALSE, raised |-> "none", last_stable |-> stable_slot]
    ELSE IF ~isfile(new_slot.core)
    THEN [result |-> FALSE, raised |-> "none", last_stable |-> stable_slot]
    ELSE IF fault = "copy_core"
    THEN [result |-> FALSE, raised |-> "IOError", last_stable |-> stable_slot]
    ELSE IF copy_fails(new_slot.gpg_sig, fault, "copy_gpg_sig")
    THEN [result |-> FALSE, raised |-> "IOError",
          last_stable |-> [stable_slot EXCEPT !.core = new_slot.core]]
    ELSE [result |-> TRUE, raised |-> "none",
          last_stable |-> [core |-> new_slot.core, gpg_sig |-> new_slot.gpg_sig]]


(***************************************************************************)
(* The initial state: nothing fetched or installed yet.  The installation  *)
(* directory may exist already, and the package may have put a last-stable *)
(* egg with its signature in place.                                        *)
(***************************************************************************)
Init ==
    /\ libDir \in BOOLEAN
    /\ newest = NoSlot
    /\ last_stable \in (IF libDir THEN {NoSlot, [core |-> 1, gpg_sig |-> 1]} ELSE {NoSlot})
    /\ etag = NoSlot
    /\ pub_gpg \in BOOLEAN
    /\ archive = FALSE
    /\ originVer = 1
    /\ cur_phase = "none"
    /\ pc = "idle"
    /\ config = DefaultConfig
    /\ force = FALSE
    /\ target = "none"
    /\ tmp = NoSlot
    /\ argv = NoArgs
    /\ request = -1
    /\ response = NoResponse
    /\ upload_results = 0
    /\ raised = "none"
    /\ stdout = <<>>
    /\ exit_status = -1
    /\ log = {}

\* The origin publishes the next egg version.
Publish ==
    /\ originVer < MaxVer
    /\ originVer' = originVer + 1
    /\ UNCHANGED <<fsVars, cur_phase, pc, config, force, target, tmp, argv,
                   httpVars, upload_results, raised, outVars, log>>

\* The first position of each phase body.
Entry(p) ==
    CASE p = "update" -> "_fetch"
      [] p = "upload" -> "upload"
      [] OTHER -> p

\* The supervisor starts a process for phase p; phase()'s _f compiles the
\* configuration and enters the body.  update() calls fetch() with its
\* default force=False, in a fresh temporary directory.
StartPhase(p) ==
    /\ pc \in {"idle", "exited"}
    /\ cur_phase' = p
    /\ pc' = Entry(p)
    /\ config' \in compile_config(p)
    /\ force' = FALSE
    /\ target' = IF p = "update" THEN "core" ELSE "none"
    /\ tmp' = NoSlot
    /\ request' = -1
    /\ response' = NoResponse
    /\ upload_results' = 0
    /\ raised' = "none"
    /\ stdout' = <<>>
    /\ exit_status' = -1
    /\ log' = {}
    /\ UNCHANGED <<fsVars, originVer, argv>>

(***************************************************************************)
(* InsightsClient._fetch, in three steps: the request and its response,    *)
(* the write of the body, the write of the etag.                           *)
(***************************************************************************)

\* current_etag: None (-1) when there is no etag file, else its text.
current_etag(etag_file) == IF isfile(etag_file) THEN etag_file ELSE -1

\* Mutant: the cached etag is never sent.
if_none_match_never(etag_file, f) == -1

\* Mutant: the cached etag is sent whatever force says.
if_none_match_forced(etag_file, f) ==
    IF isfile(etag_file) /\ etag_file > 0 THEN etag_file ELSE -1

\* "if current_etag and not force": the If-None-Match header sent (-1: none).
\* An empty etag file gives the empty string, which is false.
if_none_match(etag_file, f) ==
    IF current_etag(etag_file) > 0 /\ ~f THEN current_etag(etag_file) ELSE -1

\* Mutant: the length of the body is not tested.
data_received_any_200(r) == r.status_code = HTTP_OK

\* "if response.status_code == 200 and len(response.content) > 0"
data_received(r) == r.status_code = HTTP_OK /\ r.content > 0

\* Where an exception leaves to: the phase wrapper, or the caller of the API.
Propagate == IF cur_phase = "api" THEN "api_return" ELSE "phase_exit"

\* Mutant: fetch() goes on to the signature whatever the core fetch returned.
AfterFetch_sig_anyway(which) ==
    IF which = "core" THEN "_fetch"
    ELSE IF cur_phase = "api" THEN "api_return"
    ELSE "verify"

\* Where the caller goes on when _fetch returns without an update: fetch()
\* returns None for the core and update() returns False; for the signature
\* fetch() ignores the result and returns the paths, to update() or to the
\* caller of the API.
AfterFetch(which) ==
    IF cur_phase = "api" THEN "api_return"
    ELSE IF which = "core" THEN "update_rules"
    ELSE "verify"

\* What fetch() returns when _fetch returns for resource which: None when the
\* core was not updated, the paths once the signature fetch is over.
fetch_returns(which) == IF which = "core" THEN "fetch:None" ELSE "fetch:paths"

\* Mutant: on a 200 the etag is cached without the body being written.
after_get_etag_only(r) == IF r.status_code = HTTP_OK THEN "write_etag" ELSE "return"

\* The step of _fetch that follows the response.
after_get(r) == IF data_received(r) THEN "write_target" ELSE "return"

Fetch_get ==
    /\ pc = "_fetch"
    /\ request' = if_none_match(etag[target], force)
    /\ \E r \in session_get(target, request') :
          /\ response' = r
          /\ IF after_get(r) = "return"
             THEN /\ pc' = AfterFetch(target)
                  /\ target' = IF pc' = "_fetch" THEN "gpg_sig" ELSE "none"
                  /\ log' = log \cup {IF target = "core" THEN "get:core" ELSE "get:gpg_sig"}
                                \cup (IF pc' = "_fetch" THEN {} ELSE {fetch_returns(target)})
             ELSE /\ pc' = after_get(r)
                  /\ target' = target
                  /\ log' = log \cup {IF target = "core" THEN "get:core" ELSE "get:gpg_sig"}
    /\ UNCHANGED <<fsVars, originVer, cur_phase, config, force, tmp, argv,
                   upload_results, raised, outVars>>

\* "with open(target_path, 'wb') as handle: handle.write(response.content)"
Fetch_write_target ==
    /\ pc = "write_target"
    /\ tmp' = [tmp EXCEPT ![target] = response.content]
    /\ pc' = "write_etag"
    /\ UNCHANGED <<fsVars, originVer, cur_phase, config, force, target, argv,
                   httpVars, upload_results, raised, outVars, log>>

\* "with open(etag_file, 'w') as handle: handle.write(response.headers['etag'])"
\* open() truncates the file; a response without the header then raises
\* KeyError and leaves it empty.
Fetch_write_etag ==
    /\ pc = "write_etag"
    /\ IF response.etag = -1
       THEN /\ etag' = [etag EXCEPT ![target] = 0]
            /\ raised' = "KeyError"
            /\ pc' = Propagate
            /\ target' = "none"
            /\ log' = log
       ELSE /\ etag' = [etag EXCEPT ![target] = response.etag]
            /\ raised' = raised
            /\ IF target = "core"
               THEN pc' = "_fetch" /\ target' = "gpg_sig" /\ log' = log
               ELSE /\ pc' = AfterFetch(target)
                    /\ target' = "none"
                    /\ log' = log \cup {fetch_returns(target)}
    /\ UNCHANGED <<libDir, newest, last_stable, pub_gpg, archive, originVer,
                   cur_phase, config, force, tmp, argv, httpVars,
                   upload_results, outVars>>

(***************************************************************************)
(* InsightsClient.update after fetch(): verify, then install.              *)
(***************************************************************************)
\* Mutant: update() installs whatever verify() answered.
update_installs_unverified(egg_paths, verified) == egg_paths

\* "if (egg_paths and self.verify(egg_paths['core'])['gpg'])": update()
\* installs; otherwise it returns False.
update_installs(egg_paths, verified) == egg_paths /\ verified

Verify ==
    /\ pc = "verify"
    /\ \E rc \in gpg_returncode(tmp.core, tmp.gpg_sig) :
          LET v == verify(TRUE, tmp.core, tmp.gpg_sig, TRUE, pub_gpg, config.gpg, rc)
          IN /\ log' = log \cup {IF v.gpg THEN "verify:True" ELSE "verify:False"}
                           \cup (IF v.popen THEN {"Popen"} ELSE {})
             /\ pc' = IF update_installs(TRUE, v.gpg) THEN "install" ELSE "update_rules"
    /\ UNCHANGED <<fsVars, originVer, cur_phase, config, force, target, tmp, argv,
                   httpVars, upload_results, raised, outVars>>

Install ==
    /\ pc = "install"
    /\ \E fault \in Faults :
          LET i == install([path |-> TRUE, file |-> tmp.core],
                           [path |-> TRUE, file |-> tmp.gpg_sig],
                           config.gpg, libDir, newest, fault)
          IN /\ libDir' = i.libDir
             /\ newest' = i.newest
             /\ raised' = i.raised
             /\ log' = log \cup {"install"}
                           \cup (IF i.success THEN {"install:success"} ELSE {})
             /\ pc' = IF i.raised = "none" THEN "update_rules" ELSE "phase_exit"
    /\ UNCHANGED <<last_stable, etag, pub_gpg, archive, originVer, cur_phase,
                   config, force, target, tmp, argv, httpVars, upload_results, outVars>>

\* InsightsClient.update_rules, called by the update phase once c.update()
\* has returned: "if config['update']: return client.update_rules()".
\* client.update_rules() is a collaborator and may raise.
\* Mutant: the rules are refreshed whatever config['update'] says.
update_rules_always(update) == TRUE

update_rules(update) == update

UpdateRules ==
    /\ pc = "update_rules"
    /\ IF update_rules(config.update)
       THEN \E ok \in BOOLEAN :
               /\ log' = log \cup {"client.update_rules"}
               /\ raised' = IF ok THEN "none" ELSE "Exception"
       ELSE log' = log /\ raised' = raised
    /\ pc' = "phase_exit"
    /\ UNCHANGED <<fsVars, originVer, cur_phase, config, force, target, tmp, argv,
                   httpVars, upload_results, outVars>>


(***************************************************************************)
(* die() and the phase() wrapper.                                          *)
(* The printed line is kept as the JSON text of its four fields.           *)
(***************************************************************************)
\* Mutant: the line always asks the parent to retry.
json_line_retry(msg, rc, retry, resp) ==
    [message |-> msg, rc |-> rc, retry |-> TRUE, response |-> resp]

json_line(msg, rc, retry, resp) ==
    [message |-> msg, rc |-> rc, retry |-> retry, response |-> resp]

\* Mutant: die() exits with status 1.
die_exit_1(out, msg, rc, retry, resp) ==
    [stdout |-> Append(out, json_line(msg, rc, retry, resp)),
     raised |-> "SystemExit",
     code   |-> 1]

\* Mutant: a failing rc is reported with retry set.
die_retry_on_failure(out, msg, rc, retry, resp) ==
    [stdout |-> Append(out, json_line(msg, rc, rc = "1", resp)),
     raised |-> "SystemExit",
     code   |-> 0]

\* die(msg=None, rc=None, retry=False, response=None): print the line, then
\* sys.exit(0), which raises SystemExit carrying status 0.
die(out, msg, rc, retry, resp) ==
    [stdout |-> Append(out, json_line(msg, rc, retry, resp)),
     raised |-> "SystemExit",
     code   |-> 0]

\* Mutant: a bare "except:", which also catches the SystemExit of die().
except_BaseException(e) == e # "none"

\* "except Exception": SystemExit derives from BaseException only.
except_Exception(e) == e \notin {"none", "SystemExit"}

\* The end of phase()'s _f: the except clause, the else clause, or the
\* SystemExit of a die() in the body leaving the process.
phase_f ==
    /\ pc = "phase_exit"
    /\ IF raised = "none"
       THEN LET d == die(stdout, "null", "null", FALSE, "null")
            IN /\ stdout' = d.stdout
               /\ exit_status' = d.code
               /\ log' = log \cup {"die:else"}
       ELSE IF except_Exception(raised)
       THEN stdout' = stdout /\ exit_status' = 1 /\ log' = log \cup {"except"}
       ELSE stdout' = stdout /\ exit_status' = 0 /\ log' = log
    /\ pc' = "exited"
    /\ UNCHANGED <<fsVars, originVer, cur_phase, config, force, target, tmp, argv,
                   httpVars, upload_results, raised>>

\* What a phase body did in one step: called die(rc=..., response=...),
\* raised, or returned.
Died(rc, resp) == [kind |-> "die", rc |-> rc, response |-> resp]
Raised   == [kind |-> "raise", rc |-> "null", response |-> "null"]
Returned == [kind |-> "return", rc |-> "null", response |-> "null"]

rc_text(b) == IF b THEN "0" ELSE "1"

Flags(keys) == [keys -> BOOLEAN]

\* pre_update(): c the options it reads, x what its collaborators answer
\* (x.fails names the collaborator call that raises, if any).
pre_update(c, x) ==
    IF c.version THEN Died("0", "null")
    ELSE IF c.validate
    THEN (IF x.fails = "validate_remove_file" THEN Raised
          ELSE Died(rc_text(x.validate_remove_file), "null"))
    ELSE IF c.enable_schedule /\ c.disable_schedule THEN Died("1", "null")
    ELSE IF c.enable_schedule
    THEN (IF x.fails = "set_daily" THEN Raised ELSE Died("0", "null"))
    ELSE IF c.disable_schedule /\ x.fails = "remove_scheduling" THEN Raised
    ELSE IF c.disable_schedule /\ ~c.register THEN Died("0", "null")
    ELSE IF c.test_connection
    THEN (IF x.fails = "test_connection" THEN Raised
          ELSE Died(rc_text(x.test_connection), "null"))
    ELSE IF c.support
    THEN (IF x.fails = "collect_support_info" THEN Raised ELSE Died("0", "null"))
    ELSE Returned

PreUpdateKeys == {"version", "validate", "enable_schedule", "disable_schedule",
                  "register", "test_connection", "support"}
PreUpdateAnswers ==
    [validate_remove_file : BOOLEAN, test_connection : BOOLEAN,
     fails : {"none", "validate_remove_file", "set_daily", "remove_scheduling",
              "test_connection", "collect_support_info"}]

\* post_update()
post_update(c, x) ==
    IF c.status
    THEN (IF x.fails = "registration_check" THEN Raised
          ELSE Died(rc_text(x.reg_check), "null"))
    ELSE IF c.unregister
    THEN (IF x.fails = "unregister" THEN Raised
          ELSE Died(rc_text(x.unregister), "null"))
    ELSE LET register == c.register \/ c.reregister
         IN IF x.fails = "generate_machine_id" THEN Raised
            ELSE IF register /\ x.fails = "try_register" THEN Raised
            ELSE IF ~c.container_mode /\ ~c.analyze_image /\ ~register /\ ~c.offline
            THEN (IF x.fails = "_is_client_registered" THEN Raised
                  ELSE IF ~x.is_registered THEN Died("1", "null")
                  ELSE Returned)
            ELSE Returned

PostUpdateKeys == {"status", "unregister", "reregister", "register",
                   "container_mode", "analyze_image", "offline"}
PostUpdateAnswers ==
    [reg_check : BOOLEAN, unregister : BOOLEAN, is_registered : BOOLEAN,
     fails : {"none", "registration_check", "unregister", "generate_machine_id",
              "try_register", "_is_client_registered"}]

\* collect(): die(response=tar_file) once c.collect() has returned.
collect(ok) == IF ok THEN Died("null", "tar_file") ELSE Raised

\* What the bodies can do, over every configuration and every answer.
PreUpdateRuns ==
    {pre_update(c, x) : c \in Flags(PreUpdateKeys), x \in PreUpdateAnswers}
PostUpdateRuns ==
    {post_update(c, x) : c \in Flags(PostUpdateKeys), x \in PostUpdateAnswers}

\* The effect of a one-step phase body on the process.
Leave(b) ==
    /\ IF b.kind = "die"
       THEN LET d == die(stdout, "null", b.rc, FALSE, b.response)
            IN stdout' = d.stdout /\ raised' = d.raised /\ log' = log \cup {"die:body"}
       ELSE /\ stdout' = stdout
            /\ raised' = IF b.kind = "raise" THEN "Exception" ELSE "none"
            /\ log' = log
    /\ pc' = "phase_exit"

PreUpdate ==
    /\ pc = "pre_update"
    /\ \E b \in PreUpdateRuns : Leave(b)
    /\ UNCHANGED <<fsVars, originVer, cur_phase, config, force, target, tmp, argv,
                   httpVars, upload_results, exit_status>>

PostUpdate ==
    /\ pc = "post_update"
    /\ \E b \in PostUpdateRuns : Leave(b)
    /\ UNCHANGED <<fsVars, originVer, cur_phase, config, force, target, tmp, argv,
                   httpVars, upload_results, exit_status>>

Collect ==
    /\ pc = "collect"
    /\ \E ok \in BOOLEAN :
          /\ Leave(collect(ok))
          /\ archive' = (archive \/ ok)
    /\ UNCHANGED <<libDir, newest, last_stable, etag, pub_gpg, originVer, cur_phase,
                   config, force, target, tmp, argv, httpVars, upload_results,
                   exit_status>>

(***************************************************************************)
(* The upload phase: upload(), InsightsClient.upload, rotate_eggs.         *)
(***************************************************************************)

\* InsightsClient.upload up to the rotation: client.upload(path) answers a
\* status or raises; on 201 the archive is deleted unless keep_archive.
\* Mutant: any answer of client.upload() counts as a success.
upload_succeeded_any(status) == status > 0

\* "if upload_results['status'] == 201"
upload_succeeded(status) == status = HTTP_CREATED

\* Mutant: the archive is deleted whatever keep_archive says.
delete_archive_always(keep_archive) == TRUE

\* "if config['keep_archive']: logger.info(...) else: client.delete_archive(path)"
delete_archive_called(keep_archive) == ~keep_archive

Upload ==
    /\ pc = "upload"
    /\ \/ \E status \in {HTTP_CREATED, HTTP_ERROR} :
             /\ upload_results' = status
             /\ raised' = raised
             /\ IF upload_succeeded(status)
                THEN /\ archive' = (archive /\ ~delete_archive_called(config.keep_archive))
                     /\ log' = log \cup (IF delete_archive_called(config.keep_archive)
                                         THEN {"delete_archive"} ELSE {})
                     /\ pc' = "rotate_eggs"
                ELSE /\ archive' = archive
                     /\ log' = log
                     /\ pc' = "upload_return"
       \/ /\ raised' = "Exception"
          /\ pc' = "phase_exit"
          /\ UNCHANGED <<upload_results, archive, log>>
    /\ UNCHANGED <<libDir, newest, last_stable, etag, pub_gpg, originVer, cur_phase,
                   config, force, target, tmp, argv, httpVars, outVars>>

\* Mutant: the handler logs the message and goes on to return the results.
upload_except_IOError_swallowed(e) ==
    IF e = "IOError"
    THEN [raised |-> "none", message |-> "Failed to rotate"]
    ELSE [raised |-> e, message |-> "none"]

\* "except IOError: message = 'Failed to rotate ...'; raise IOError(message)"
upload_except_IOError(e) ==
    IF e = "IOError"
    THEN [raised |-> "IOError", message |-> "Failed to rotate"]
    ELSE [raised |-> e, message |-> "none"]

\* "try: self.rotate_eggs() except IOError: raise IOError(message)"
RotateEggs ==
    /\ pc = "rotate_eggs"
    /\ \E fault \in {"none", "copy_core", "copy_gpg_sig"} :
          LET r == rotate_eggs(libDir, newest, last_stable, fault)
              h == upload_except_IOError(r.raised)
          IN /\ last_stable' = r.last_stable
             /\ raised' = h.raised
             /\ log' = log \cup {"rotate_eggs"}
                   \cup (IF r.raised # "none" THEN {"rotate_eggs:IOError"}
                         ELSE IF r.result THEN {"rotate_eggs:True"}
                         ELSE {"rotate_eggs:False"})
                   \cup (IF h.message # "none" THEN {h.message} ELSE {})
             /\ pc' = IF h.raised = "none" THEN "upload_return" ELSE "phase_exit"
    /\ UNCHANGED <<libDir, newest, etag, pub_gpg, archive, originVer, cur_phase,
                   config, force, target, tmp, argv, httpVars, upload_results, outVars>>

\* Mutant: the text does not tell the status.
json_dumps_opaque(status) == "status 201"

\* json.dumps(resp) of the upload results
json_dumps(status) == IF status = HTTP_CREATED THEN "status 201" ELSE "status 500"

\* The end of upload(): "if config['to_json']: die(json.dumps(resp))"
UploadReturn ==
    /\ pc = "upload_return"
    /\ IF config.to_json
       THEN LET d == die(stdout, json_dumps(upload_results), "null", FALSE, "null")
            IN stdout' = d.stdout /\ raised' = d.raised /\ log' = log \cup {"die:body"}
       ELSE stdout' = stdout /\ raised' = raised /\ log' = log
    /\ pc' = "phase_exit"
    /\ UNCHANGED <<fsVars, originVer, cur_phase, config, force, target, tmp, argv,
                   httpVars, upload_results, exit_status>>

Next ==
    \/ Publish
    \/ \E p \in Phases : StartPhase(p)
    \/ Fetch_get
    \/ Fetch_write_target
    \/ Fetch_write_etag
    \/ Verify
    \/ Install
    \/ UpdateRules
    \/ PreUpdate
    \/ PostUpdate
    \/ Collect
    \/ Upload
    \/ RotateEggs
    \/ UploadReturn
    \/ phase_f

Spec == Init /\ [][Next]_vars

(***************************************************************************)
(* Direct calls of InsightsClient.verify by a caller of the API.           *)
(***************************************************************************)
Files == -1..MaxVer

\* The caller picks the arguments, the files at egg_path and egg_path +
\* '.asc', and config["gpg"].
ApiCallVerify ==
    /\ pc \in {"idle", "api_return"}
    /\ cur_phase' = "api"
    /\ pc' = "api_verify"
    /\ argv' \in [egg_path : BOOLEAN, gpg_key : BOOLEAN]
    /\ tmp' \in (IF argv'.egg_path THEN [core : Files, gpg_sig : Files] ELSE {NoSlot})
    /\ config' \in {[DefaultConfig EXCEPT !.gpg = g] : g \in BOOLEAN}
    /\ log' = {}
    /\ UNCHANGED <<fsVars, originVer, force, target, httpVars, upload_results,
                   raised, outVars>>

\* "rc = process.returncode": the exit code gpg gave, in the call record.
returncode(rc) == IF rc = 0 THEN "rc:0" ELSE IF rc = 1 THEN "rc:1" ELSE "rc:2"

ApiVerify ==
    /\ pc = "api_verify"
    /\ \E rc \in gpg_returncode(tmp.core, tmp.gpg_sig) :
          LET v == verify(argv.egg_path, tmp.core, tmp.gpg_sig, argv.gpg_key,
                          pub_gpg, config.gpg, rc)
          IN log' = {IF v.gpg THEN "verify:True" ELSE "verify:False"}
                       \cup (IF v.popen THEN {"Popen", returncode(rc)} ELSE {})
    /\ pc' = "api_return"
    /\ UNCHANGED <<fsVars, originVer, cur_phase, config, force, target, tmp, argv,
                   httpVars, upload_results, raised, outVars>>

NextApi == ApiCallVerify \/ ApiVerify

SpecApi == Init /\ [][NextApi]_vars


(***************************************************************************)
(* Direct calls of InsightsClient.fetch(force=...) by a caller of the API, *)
(* against an origin that publishes new versions.                          *)
(***************************************************************************)
ApiCallFetch ==
    /\ pc \in {"idle", "api_return"}
    /\ cur_phase' = "api"
    /\ pc' = "_fetch"
    /\ target' = "core"
    /\ force' \in BOOLEAN
    /\ tmp' = NoSlot
    /\ request' = -1
    /\ response' = NoResponse
    /\ raised' = "none"
    /\ log' = {}
    /\ UNCHANGED <<fsVars, originVer, config, argv, upload_results, outVars>>

NextFetch ==
    \/ ApiCallFetch
    \/ Publish
    \/ Fetch_get
    \/ Fetch_write_target
    \/ Fetch_write_etag

SpecFetch == Init /\ [][NextFetch]_vars

(***************************************************************************)
(* Direct calls of InsightsClient.install(new_egg, new_egg_gpg_sig).       *)
(***************************************************************************)
\* The caller picks the arguments (set or not), the files at the two paths
\* and config["gpg"].
ApiCallInstall ==
    /\ pc \in {"idle", "install_return"}
    /\ cur_phase' = "api"
    /\ pc' = "api_install"
    /\ argv' \in [new_egg : BOOLEAN, new_egg_gpg_sig : BOOLEAN]
    /\ tmp' \in [core : IF argv'.new_egg THEN Files ELSE {-1},
                 gpg_sig : IF argv'.new_egg_gpg_sig THEN Files ELSE {-1}]
    /\ config' \in {[DefaultConfig EXCEPT !.gpg = g] : g \in BOOLEAN}
    /\ raised' = "none"
    /\ log' = {}
    /\ UNCHANGED <<fsVars, originVer, force, target, httpVars, upload_results,
                   outVars>>

ApiInstall ==
    /\ pc = "api_install"
    /\ \E fault \in Faults :
          LET i == install([path |-> argv.new_egg, file |-> tmp.core],
                           [path |-> argv.new_egg_gpg_sig, file |-> tmp.gpg_sig],
                           config.gpg, libDir, newest, fault)
          IN /\ libDir' = i.libDir
             /\ newest' = i.newest
             /\ raised' = i.raised
             /\ log' = {"install"}
                   \cup (IF i.raised # "none" THEN {}
                         ELSE IF i.success THEN {"install:success"}
                         ELSE {"install:False"})
    /\ pc' = "install_return"
    /\ UNCHANGED <<last_stable, etag, pub_gpg, archive, originVer, cur_phase,
                   config, force, target, tmp, argv, httpVars, upload_results, outVars>>

NextInstall == ApiCallInstall \/ ApiInstall

SpecInstall == Init /\ [][NextInstall]_vars

(***************************************************************************)
(* InsightsClient.__init__(read_config, setup_logging, **kwargs)           *)
(***************************************************************************)
\* The keyword arguments a caller passes: two options and a name that is
\* not an option.
KwargKeys == {"gpg", "update", "no_such_option"}
Kwargs == UNION {[S -> BOOLEAN] : S \in SUBSET KwargKeys}

\* "invalid_keys = [k for k in kwargs if k not in config]"
invalid_keys(cfg, kwargs) == {k \in DOMAIN kwargs : k \notin DOMAIN cfg}

\* Mutant: the recognized overrides are applied before the check raises.
override_then_validate(cfg, kwargs) ==
    [config |-> [k \in DOMAIN cfg |->
                    IF k \in DOMAIN kwargs THEN kwargs[k] ELSE cfg[k]],
     raised |-> IF invalid_keys(cfg, kwargs) # {} THEN "ValueError" ELSE "none"]

\* "if invalid_keys: raise ValueError(...)", then
\* "for key, value in kwargs.items(): config[key] = value"
validate_then_override(cfg, kwargs) ==
    IF invalid_keys(cfg, kwargs) # {}
    THEN [config |-> cfg, raised |-> "ValueError"]
    ELSE [config |-> [k \in DOMAIN cfg |->
                         IF k \in DOMAIN kwargs THEN kwargs[k] ELSE cfg[k]],
          raised |-> "none"]

ApiCallInit ==
    /\ pc \in {"idle", "init_return"}
    /\ cur_phase' = "api"
    /\ pc' = "init"
    /\ argv' \in [read_config : BOOLEAN, kwargs : Kwargs]
    /\ raised' = "none"
    /\ log' = {}
    /\ UNCHANGED <<fsVars, originVer, config, force, target, tmp, httpVars,
                   upload_results, outVars>>

\* "if read_config: compile_config()": the configuration files may hold any
\* values of the options.
InitCompileConfig ==
    /\ pc = "init"
    /\ IF argv.read_config
       THEN \E p \in Phases : config' \in compile_config(p)
       ELSE config' = config
    /\ pc' = "init_kwargs"
    /\ UNCHANGED <<fsVars, originVer, cur_phase, force, target, tmp, argv, httpVars,
                   upload_results, raised, outVars, log>>

InitKwargs ==
    /\ pc = "init_kwargs"
    /\ LET r == validate_then_override(config, argv.kwargs)
       IN config' = r.config /\ raised' = r.raised
    /\ pc' = "init_return"
    /\ UNCHANGED <<fsVars, originVer, cur_phase, force, target, tmp, argv, httpVars,
                   upload_results, outVars, log>>

NextInit == ApiCallInit \/ InitCompileConfig \/ InitKwargs

SpecInit == Init /\ [][NextInit]_vars

(***************************************************************************)
(* Claims                                                                  *)
(***************************************************************************)
Exited(p) == cur_phase = p /\ pc = "exited"

\* C1: update() calls install() if and only if verify() returned gpg=True
\* for the fetched egg; the newest slot changes only after such a verify and
\* receives the fetched egg; a successful install leaves the fetched pair in
\* the newest slot.  After a failed signature check install() is not called
\* and the newest slot stays as it was.
C1_SignatureGatedInstall ==
    [][ /\ ("install" \in log') <=> ("verify:True" \in log' /\ pc' # "install")
        /\ newest' # newest =>
              /\ "verify:True" \in log /\ "verify:False" \notin log
              /\ newest'.core = tmp.core
        /\ "verify:False" \in log' => ("install" \notin log' /\ newest' = newest)
        /\ "install:success" \in log' => newest' = tmp'
      ]_vars

\* C1 witness: gpg ran, accepted the fetched pair, and install() put it in
\* the newest slot.
C1_Witness ==
    /\ Exited("update")
    /\ {"Popen", "verify:True", "install:success"} \subseteq log
    /\ isfile(tmp.core)
    /\ newest = tmp

\* C2: a terminated phase process ended in exactly one of three ways: the
\* wrapper's implicit die(), a die() called in the body, or the wrapper's
\* except clause; and no process ever prints a second outcome line.
C2_OutcomeSingularity ==
    /\ Len(stdout) <= 1
    /\ (pc = "exited" /\ cur_phase \in Phases) =>
          /\ Cardinality(log \cap {"die:else", "die:body", "except"}) = 1
          /\ ("except" \in log) <=> (Len(stdout) = 0)

\* C2 witness: a body called die() and the wrapper added nothing to it.
C2_Witness ==
    /\ pc = "exited"
    /\ cur_phase \in Phases
    /\ "die:body" \in log
    /\ Len(stdout) = 1
    /\ stdout[1].rc = "1"

\* C3: a terminated phase process has exit status 0 exactly when it printed
\* one outcome line, and exit status 1 exactly when its body raised an
\* exception, in which case it printed nothing.
C3_ExitStatus ==
    (pc = "exited" /\ cur_phase \in Phases) =>
        /\ exit_status \in {0, 1}
        /\ (exit_status = 0) <=> (Len(stdout) = 1)
        /\ (exit_status = 1) <=> (raised \notin {"none", "SystemExit"})
        /\ (exit_status = 1) => (stdout = <<>>)

\* C3 witness: install() raised out of the update phase; exit status 1 and
\* nothing printed.
C3_Witness ==
    /\ Exited("update")
    /\ raised = "IOError"
    /\ exit_status = 1
    /\ stdout = <<>>


\* C4: rotate_eggs() changes the last-stable egg only when the newest slot
\* holds the signature made over its egg, and whatever it writes leaves the
\* last-stable slot equal to the newest pair.
C4_AtomicPair ==
    [][ last_stable' # last_stable =>
           /\ isfile(newest.gpg_sig)
           /\ newest.gpg_sig = newest.core
           /\ last_stable' = newest
      ]_vars

\* C5 as claimed: the rule refresh is performed only after a successful
\* install in the same run.
C5_RefreshOnlyAfterInstall ==
    "client.update_rules" \in log => ("install:success" \in log /\ config.update)

\* The exceptions that leave InsightsClient.update().
UpdateRaised == raised \in {"KeyError", "IOError", "OSError", "TypeError"}

\* C5 as amended: in the update phase the rule refresh is performed exactly
\* when c.update() returned without raising and config['update'] is true,
\* whether or not an install happened.
C5_RefreshUnlessRaised ==
    (cur_phase = "update" /\ pc \in {"phase_exit", "exited"}) =>
        (("client.update_rules" \in log) <=> (config.update /\ ~UpdateRaised))

\* C5 witness: the fetch answered 304, nothing was installed, and the rules
\* were refreshed.
C5_Witness ==
    /\ Exited("update")
    /\ response.status_code = HTTP_NOT_MODIFIED
    /\ "install" \notin log
    /\ "client.update_rules" \in log

Returned_verify == cur_phase = "api" /\ pc = "api_return"

\* C6 as claimed: with config["gpg"] false verify() answers gpg=True for any
\* egg path, and gpg is not run.
C6_BypassAnyPath ==
    (Returned_verify /\ ~config.gpg) => ("verify:True" \in log /\ "Popen" \notin log)

\* C6 as amended: with config["gpg"] false verify() never runs gpg, and it
\* answers gpg=True exactly when the egg path is unset or names an existing
\* file; for a path at which no file exists it answers gpg=False.
C6_BypassExistingPath ==
    (Returned_verify /\ ~config.gpg) =>
        /\ "Popen" \notin log
        /\ ("verify:True" \in log) <=> ~(argv.egg_path /\ ~isfile(tmp.core))
        /\ ("verify:False" \in log) <=> (argv.egg_path /\ ~isfile(tmp.core))

\* C6 witness: gpg disabled, a path with no file: gpg=False.
C6_Witness ==
    /\ Returned_verify
    /\ ~config.gpg
    /\ argv.egg_path
    /\ ~isfile(tmp.core)
    /\ "verify:False" \in log

SlotFiles == {"core", "gpg_sig"}

\* C8: the newest slot is written by install() only, which leaves
\* last-stable alone; the last-stable slot is written by rotate_eggs() only,
\* which leaves newest alone and writes to each file the content of the
\* same file of newest.
C8_WriterDiscipline ==
    [][ /\ newest' # newest => (pc = "install" /\ last_stable' = last_stable)
        /\ last_stable' # last_stable =>
              /\ pc = "rotate_eggs"
              /\ newest' = newest
              /\ \A f \in SlotFiles :
                    last_stable'[f] # last_stable[f] => last_stable'[f] = newest[f]
      ]_vars

\* C8 witness: a rotation that failed on the signature copy: the egg it
\* wrote is the newest egg, the newest slot is as it was.
C8_Witness ==
    /\ Exited("upload")
    /\ "Failed to rotate" \in log
    /\ isfile(last_stable.core)
    /\ last_stable.core = newest.core
    /\ last_stable.gpg_sig # newest.gpg_sig

\* C9: when the installation directory or the newest egg is absent,
\* rotate_eggs() returns False, raises nothing and leaves last-stable as it
\* was.
C9_RotatePrecondition ==
    [][ (pc = "rotate_eggs" /\ pc' # pc /\ (~libDir \/ ~isfile(newest.core))) =>
           /\ last_stable' = last_stable
           /\ "rotate_eggs:False" \in log'
           /\ raised' = "none"
      ]_vars

\* C9 witness: rotate_eggs() returned False with a last-stable egg in place
\* and no newest egg.
C9_Witness ==
    /\ "rotate_eggs:False" \in log
    /\ libDir
    /\ ~isfile(newest.core)
    /\ isfile(last_stable.core)

\* C10: an etag file is written only in the step that follows the write of
\* the body of a 200 response with content, and only the etag file of the
\* resource being fetched, whose target file then holds the body.
C10_BodyBeforeEtag ==
    [][ \A w \in SlotFiles :
           etag'[w] # etag[w] =>
              /\ pc = "write_etag"
              /\ w = target
              /\ data_received(response)
              /\ tmp[w] = response.content
      ]_vars

\* C10 witness: between the two writes: the body is in the target file, the
\* etag file is still the old one.
C10_Witness ==
    /\ pc = "write_etag"
    /\ target = "core"
    /\ tmp.core = response.content
    /\ response.etag = 2
    /\ etag.core = 1


\* A step of _fetch that sends the request and receives the response.
GetStep == pc = "_fetch" /\ pc' # pc

\* C11: a non-forced _fetch that finds a cached validator sends it, and when
\* the origin answers 304 the call returns without an update and leaves the
\* target file, both etag files and every other file as they were, so that
\* the next call starts from the same files.
C11_ConditionalFetchIdempotent ==
    [][ (GetStep /\ ~force /\ etag[target] > 0) =>
           /\ request' = etag[target]
           /\ response'.status_code = HTTP_NOT_MODIFIED =>
                 /\ etag' = etag
                 /\ tmp' = tmp
                 /\ fsVars' = fsVars
                 /\ raised' = "none"
                 /\ pc' = "api_return"
                 /\ target = "core" => "fetch:None" \in log'
      ]_vars

\* C11 witness: a fetch of the unchanged egg answered 304 and wrote nothing.
C11_Witness ==
    /\ pc = "api_return"
    /\ ~force
    /\ "fetch:None" \in log
    /\ response.status_code = HTTP_NOT_MODIFIED
    /\ request = etag.core
    /\ etag.core = originVer
    /\ tmp = NoSlot

\* C12: _fetch writes the target file and the etag file only for a 200
\* response with a non-empty body; for every other response it writes
\* neither, raises nothing and returns without an update.
C12_FetchFrame ==
    [][ /\ (GetStep /\ ~(response'.status_code = HTTP_OK /\ response'.content > 0)) =>
              /\ etag' = etag
              /\ tmp' = tmp
              /\ raised' = "none"
              /\ pc' \notin {"write_target", "write_etag"}
              /\ target = "core" => "fetch:None" \in log'
        /\ (pc \in {"_fetch", "write_target", "write_etag"}
               /\ (etag' # etag \/ tmp' # tmp)) =>
              (response.status_code = HTTP_OK /\ response.content > 0)
      ]_vars

\* C12 witness: a 200 response with an empty body: nothing written, fetch()
\* returned None.
C12_Witness ==
    /\ pc = "api_return"
    /\ response.status_code = HTTP_OK
    /\ response.content = 0
    /\ "fetch:None" \in log
    /\ tmp = NoSlot
    /\ raised = "none"

\* C13: fetch() requests the signature only once the core fetch has written
\* the egg; when the core fetch answers anything but a 200 with a body,
\* fetch() returns None, sends no request for the signature and leaves the
\* signature's etag file as it was.
C13_SignatureOnlyAfterUpdate ==
    [][ /\ "get:gpg_sig" \in log' => (tmp'.core > 0 /\ "fetch:None" \notin log')
        /\ (GetStep /\ target = "core"
               /\ ~(response'.status_code = HTTP_OK /\ response'.content > 0)) =>
              /\ "fetch:None" \in log'
              /\ pc' = "api_return"
              /\ etag'.gpg_sig = etag.gpg_sig
        /\ etag'.gpg_sig # etag.gpg_sig => "get:gpg_sig" \in log
      ]_vars

\* C13 witness: the core fetch answered 500 while a signature validator was
\* cached: no signature request, fetch() returned None.
C13_Witness ==
    /\ pc = "api_return"
    /\ response.status_code = HTTP_ERROR
    /\ "fetch:None" \in log
    /\ "get:gpg_sig" \notin log
    /\ etag.gpg_sig > 0

\* C14: whatever the etag file holds, a forced _fetch sends no
\* If-None-Match header; a non-forced one sends the cached validator when
\* the etag file holds one, and no header otherwise.
C14_ForceBypass ==
    [][ GetStep =>
           /\ force => request' = -1
           /\ (~force /\ etag[target] > 0) => request' = etag[target]
           /\ (~force /\ etag[target] <= 0) => request' = -1
      ]_vars

\* C14 witness: a forced fetch with a validator cached sent no header and
\* received the body.
C14_Witness ==
    /\ force
    /\ pc = "write_target"
    /\ target = "core"
    /\ etag.core > 0
    /\ request = -1

\* C15: when the upload answered 201 and rotate_eggs() raised IOError,
\* InsightsClient.upload raises an IOError with the 'Failed to rotate'
\* message instead of returning the upload results (an upload failure is a
\* different exception, or a returned status), and the upload phase ends
\* through the except clause: exit status 1, nothing printed.
C15_RotationFailureSurfaces ==
    "rotate_eggs:IOError" \in log =>
        /\ cur_phase = "upload"
        /\ upload_results = HTTP_CREATED
        /\ "Failed to rotate" \in log
        /\ raised = "IOError"
        /\ pc \in {"phase_exit", "exited"}
        /\ stdout = <<>>
        /\ "die:body" \notin log /\ "die:else" \notin log
        /\ pc = "exited" => (exit_status = 1 /\ "except" \in log)

\* C15 witness: the upload phase has exited after a failed rotation.
C15_Witness ==
    /\ pc = "exited"
    /\ "rotate_eggs:IOError" \in log
    /\ upload_results = HTTP_CREATED
    /\ exit_status = 1

\* C16: an upload answered 201 deletes the archive exactly when keep_archive
\* is false, and then attempts the rotation; a rotation that finds no newest
\* egg returns False without raising and leaves last-stable unchanged, and
\* the upload phase then ends with one outcome line and exit status 0.
C16_DeleteThenRotate ==
    [][ /\ (pc = "upload" /\ pc' # pc /\ upload_results' = HTTP_CREATED) =>
              /\ pc' = "rotate_eggs"
              /\ config.keep_archive =>
                    (archive' = archive /\ "delete_archive" \notin log')
              /\ ~config.keep_archive =>
                    (~archive' /\ "delete_archive" \in log')
        /\ (pc = "rotate_eggs" /\ pc' # pc /\ ~isfile(newest.core)) =>
              /\ "rotate_eggs:False" \in log'
              /\ raised' = "none"
              /\ last_stable' = last_stable
              /\ pc' = "upload_return"
        /\ (pc = "phase_exit" /\ pc' = "exited" /\ "rotate_eggs:False" \in log) =>
              (exit_status' = 0 /\ Len(stdout') = 1)
      ]_vars

\* C16 witness: archive deleted after a 201, no newest egg to rotate, the
\* phase exited with its outcome line.
C16_Witness ==
    /\ pc = "exited"
    /\ cur_phase = "upload"
    /\ ~config.keep_archive
    /\ "delete_archive" \in log
    /\ "rotate_eggs:False" \in log
    /\ ~isfile(newest.core)
    /\ last_stable # NoSlot
    /\ exit_status = 0
    /\ Len(stdout) = 1

\* The update phase's fetch of the egg was answered 304 (the signature is
\* then not requested).
Core304(r, l) == r.status_code = HTTP_NOT_MODIFIED /\ "get:gpg_sig" \notin l

\* The line die() prints when called without arguments.
ImplicitSuccess ==
    [message |-> "null", rc |-> "null", retry |-> FALSE, response |-> "null"]

\* C17 as claimed: after a 304 for the egg the update phase installs and
\* rotates nothing and ends with the implicit success line and exit status 0.
C17_ImplicitSuccessAfter304 ==
    (Exited("update") /\ Core304(response, log)) =>
        /\ "install" \notin log
        /\ "rotate_eggs" \notin log
        /\ stdout = <<ImplicitSuccess>>
        /\ exit_status = 0

\* C17 as amended: after a 304 for the egg the update phase changes neither
\* slot nor etag file, installs and rotates nothing, and ends with the
\* implicit success line and exit status 0 unless the rule refresh that
\* follows raised; then it ends with exit status 1 and no line.
C17_After304UnlessRefreshRaised ==
    [][ (cur_phase' = "update" /\ pc # "exited" /\ Core304(response', log')) =>
           /\ newest' = newest
           /\ last_stable' = last_stable
           /\ etag' = etag
           /\ "install" \notin log'
           /\ "rotate_eggs" \notin log'
           /\ pc' = "exited" =>
                 IF raised' = "none"
                 THEN stdout' = <<ImplicitSuccess>> /\ exit_status' = 0
                 ELSE /\ "client.update_rules" \in log'
                      /\ config.update
                      /\ stdout' = <<>>
                      /\ exit_status' = 1
      ]_vars

\* C17 witness: a 304 for the egg, the rules refreshed without raising, the
\* phase exited with the implicit success line.
C17_Witness ==
    /\ Exited("update")
    /\ Core304(response, log)
    /\ "client.update_rules" \in log
    /\ raised = "none"
    /\ stdout = <<ImplicitSuccess>>
    /\ exit_status = 0

\* C18: verify() runs gpg exactly when an egg path naming an existing file
\* and a keyring path naming an existing file are given and config["gpg"] is
\* true; it then answers gpg=True exactly when gpg's exit code is 0, and
\* raises nothing. With gpg enabled and the keyring file missing, or with the
\* egg file missing, it answers gpg=False and gpg is not run.
C18_BackendGate ==
    Returned_verify =>
        /\ ("Popen" \in log) <=>
              (argv.egg_path /\ isfile(tmp.core) /\ config.gpg
                  /\ argv.gpg_key /\ pub_gpg)
        /\ "Popen" \in log =>
              /\ ("verify:True" \in log) <=> ("rc:0" \in log)
              /\ ("verify:False" \in log) <=> ("rc:1" \in log \/ "rc:2" \in log)
              /\ raised = "none"
        /\ (config.gpg /\ argv.gpg_key /\ ~pub_gpg) =>
              ("verify:False" \in log /\ "Popen" \notin log)
        /\ (argv.egg_path /\ ~isfile(tmp.core)) =>
              ("verify:False" \in log /\ "Popen" \notin log)

\* C18 witness: gpg was run on an existing egg with the keyring present and
\* exited with code 2: gpg=False.
C18_Witness ==
    /\ Returned_verify
    /\ "Popen" \in log
    /\ "rc:2" \in log
    /\ "verify:False" \in log
    /\ pub_gpg

\* C19: install() returns success=False, creating no directory and writing
\* no file of the newest slot, when new_egg is unset or config["gpg"] is true
\* and new_egg_gpg_sig is unset. In every other case it copies the egg and
\* then the signature into the newest slot and returns success=True, or the
\* failure of the mkdir or of a copy leaves as an exception: success=False is
\* never returned there.
C19_InstallNoOpOrPropagate ==
    [][ (pc = "api_install" /\ pc' # pc) =>
           IF ~argv.new_egg \/ (config.gpg /\ ~argv.new_egg_gpg_sig)
           THEN /\ "install:False" \in log'
                /\ raised' = "none"
                /\ libDir' = libDir
                /\ newest' = newest
           ELSE /\ "install:False" \notin log'
                /\ \/ /\ "install:success" \in log'
                      /\ raised' = "none"
                      /\ libDir'
                      /\ newest' = tmp
                   \/ /\ "install:success" \notin log'
                      /\ raised' \in {"OSError", "IOError", "TypeError"}
                /\ raised' = "OSError" => (libDir' = libDir /\ newest' = newest)
                /\ newest'.gpg_sig # newest.gpg_sig => newest'.core = tmp.core
      ]_vars

\* C19 witness: gpg mode and no signature path: success=False, and the
\* directory that did not exist still does not.
C19_Witness ==
    /\ pc = "install_return"
    /\ argv.new_egg
    /\ ~argv.new_egg_gpg_sig
    /\ config.gpg
    /\ "install:False" \in log
    /\ ~libDir
    /\ isfile(tmp.core)

\* C20: a constructor call with a keyword that is not a configuration option
\* raises ValueError and applies none of its keywords, the recognized ones
\* of the same call included; a call with recognized keywords only raises
\* nothing and sets each of them.
C20_InvalidKeyRejected ==
    [][ (pc = "init_kwargs" /\ pc' # pc) =>
           IF \E k \in DOMAIN argv.kwargs : k \notin {"gpg", "update", "keep_archive", "to_json"}
           THEN raised' = "ValueError" /\ config' = config
           ELSE /\ raised' = "none"
                /\ \A k \in DOMAIN argv.kwargs : config'[k] = argv.kwargs[k]
      ]_vars

\* C20 witness: a call with gpg=False and an unknown keyword was rejected
\* while config["gpg"] was, and still is, true.
C20_Witness ==
    /\ pc = "init_return"
    /\ raised = "ValueError"
    /\ DOMAIN argv.kwargs = {"gpg", "no_such_option"}
    /\ ~argv.kwargs["gpg"]
    /\ config.gpg

\* C21: once an update phase has ended, if the cached etag of the egg is the
\* origin's current version (so the next non-forced fetch is answered 304),
\* the newest slot holds that version of the egg.
C21_CacheImpliesNewest ==
    (Exited("update") /\ etag.core > 0 /\ etag.core = originVer) =>
        newest.core = originVer

\* C22: every line printed by a phase, on every path and for every
\* configuration, has retry = false.
C22_NoRetry ==
    \A i \in 1..Len(stdout) : stdout[i].retry = FALSE

\* C22 witness: a phase reported a failing rc, with retry false.
C22_Witness ==
    /\ pc = "exited"
    /\ Len(stdout) = 1
    /\ stdout[1].rc = "1"
    /\ stdout[1].retry = FALSE
    /\ exit_status = 0

\* C23: when nothing was raised in the upload phase, it prints one line with
\* rc = null and retry = false and exits with status 0 whatever status
\* client.upload() returned; the status shows only in the message, and only
\* when to_json is set.
C23_UploadStatusNotInRc ==
    (Exited("upload") /\ raised \in {"none", "SystemExit"}) =>
        /\ upload_results \in {HTTP_CREATED, HTTP_ERROR}
        /\ exit_status = 0
        /\ Len(stdout) = 1
        /\ stdout[1].rc = "null"
        /\ stdout[1].retry = FALSE
        /\ stdout[1].response = "null"
        /\ stdout[1].message =
              IF ~config.to_json THEN "null"
              ELSE IF upload_results = HTTP_CREATED THEN "status 201"
              ELSE "status 500"

\* C23 witness: a failed upload reported with to_json set: rc null, exit
\* status 0, the status in the message.
C23_Witness ==
    /\ Exited("upload")
    /\ upload_results = HTTP_ERROR
    /\ config.to_json
    /\ Len(stdout) = 1
    /\ stdout[1].rc = "null"
    /\ stdout[1].message = "status 500"
    /\ exit_status = 0

=============================================================================
